---- MODULE Spec2Model ----
(***************************************************************************)
(* Membership store, progress aggregator, progress mutator and sync merger *)
(* of src/src/js/challenge.js, with the session of src/src/js/auth.js.     *)
(*                                                                         *)
(* Abstractions.  Numbers are integers (the code uses IEEE doubles); the   *)
(* percentage is computed with exact rational arithmetic.  Timestamps are  *)
(* not modelled as numbers: endDate is "startPlusDuration" (set by join)   *)
(* or "now" (stamped by leave), completedAt is present or absent.  A JS    *)
(* property that is undefined is a key outside the DOMAIN of the function  *)
(* that models the object; the code only tests such values for truthiness. *)
(*                                                                         *)
(* State.  challenges and allUserChallenges are the two local-storage      *)
(* documents, session is the session-storage entry, syncs holds the        *)
(* syncChallengeProgress calls suspended at an await (in start order),     *)
(* lastCall is the object returned by the call that returned last, and     *)
(* budget is the number of calls still to be explored.  sessionExpired     *)
(* says that the stored session's expiresAt lies in the past and callStack *)
(* holds the activations of getCurrentUser and logoutUser; both stay at    *)
(* their initial values except under SpecAuth: the other specifications    *)
(* explore behaviours within the 24-hour lifetime of a session, where      *)
(* getCurrentUser returns the stored user in one step.                     *)
(***************************************************************************)
EXTENDS Integers, Sequences, FiniteSets, TLC

VARIABLES challenges, allUserChallenges, session, syncs, lastCall, budget,
          sessionExpired, callStack

vars == <<challenges, allUserChallenges, session, syncs, lastCall, budget,
          sessionExpired, callStack>>

\* ------------------------------------------------------------------ bounds
MaxCalls == 3      \* API calls explored in one behaviour from a first page load
MaxCallsCap == 2   \* API calls explored from the stored state of InitCap
MaxSyncs == 2      \* syncChallengeProgress calls that may be in flight at once
MaxCallsCalc == 1  \* updates explored from each snapshot of InitCalc
MaxAmount == 2     \* largest target of a snapshot of InitCalc
MaxCallsSwitch == 1  \* API calls explored while the sync of InitSwitch is in flight
MaxDepth == 6      \* activations the engine's call stack holds before a RangeError

\* --------------------------------------------------------------- constants
MAX_ACTIVE_CHALLENGES == 5

NoUser == "null"
Users == {"u1", "u2"}
NoChallenge == "none"

\* ----------------------------------------------------------- JS object helpers
\* obj.key, with undefined read as the falsy value 0
Field(obj, key) == IF key \in DOMAIN obj THEN obj[key] ELSE 0

\* obj.key = value
Put(obj, key, value) ==
    [k \in (DOMAIN obj) \cup {key} |-> IF k = key THEN value ELSE obj[k]]

\* ------------------------------------------------------------ catalogs
FreshCatalog ==
    << [id |-> "1", category |-> "running", duration |-> 2, participants |-> 1,
        goals |-> [totalWorkouts |-> 2]],
       [id |-> "X", category |-> "cycling", duration |-> 10, participants |-> 0,
        goals |-> [totalDistance |-> 50, totalWorkouts |-> 5]] >>

CapCatalog ==
    << [id |-> "1", category |-> "running", duration |-> 2, participants |-> 1,
        goals |-> [totalWorkouts |-> 2]],
       [id |-> "2", category |-> "yoga", duration |-> 2, participants |-> 0,
        goals |-> [totalSessions |-> 2, totalMinutes |-> 2]],
       [id |-> "3", category |-> "strength", duration |-> 1, participants |-> 0,
        goals |-> [totalWorkouts |-> 1]],
       [id |-> "4", category |-> "hiit", duration |-> 1, participants |-> 0,
        goals |-> [totalWorkouts |-> 1, caloriesBurned |-> 1]],
       [id |-> "5", category |-> "swimming", duration |-> 1, participants |-> 0,
        goals |-> [totalDistance |-> 1]],
       [id |-> "6", category |-> "strength", duration |-> 1, participants |-> 0,
        goals |-> [totalWorkouts |-> 1]] >>

\* challenge ids a caller may pass: the catalog's ids and one unknown id
ChallengeIds == {challenges[i].id : i \in 1..Len(challenges)} \cup {"missing"}

\* ------------------------------------------------------------ catalog reads
\* challenges.findIndex(c => c.id === challengeId), 1-based; 0 when no entry
\* matches (JS: -1)
getChallengeIndex(chs, challengeId) ==
    IF \E i \in 1..Len(chs) : chs[i].id = challengeId
    THEN CHOOSE i \in 1..Len(chs) :
            /\ chs[i].id = challengeId
            /\ \A j \in 1..(i - 1) : chs[j].id # challengeId
    ELSE 0

\* getChallengeById: the challenge, or null (index 0)
getChallengeById(chs, challengeId) ==
    chs[getChallengeIndex(chs, challengeId)]

\* participants of the challenge with this id, 0 when there is none
ParticipantsOf(chs, challengeId) ==
    IF getChallengeIndex(chs, challengeId) = 0 THEN 0
    ELSE getChallengeById(chs, challengeId).participants

\* mutant: the increment's sign is dropped
updateChallengeParticipants_NoSign(chs, challengeId, increment) ==
    LET challengeIndex == getChallengeIndex(chs, challengeId)
    IN  IF challengeIndex # 0
        THEN [chs EXCEPT ![challengeIndex].participants = @ + 1]
        ELSE chs

\* mutant: the counter of the first catalog entry is changed
updateChallengeParticipants_FirstEntry(chs, challengeId, increment) ==
    LET challengeIndex == getChallengeIndex(chs, challengeId)
    IN  IF challengeIndex # 0
        THEN [chs EXCEPT ![1].participants = @ + increment]
        ELSE chs

updateChallengeParticipants(chs, challengeId, increment) ==
    LET challengeIndex == getChallengeIndex(chs, challengeId)
    IN  IF challengeIndex # 0
        THEN [chs EXCEPT ![challengeIndex].participants = @ + increment]
        ELSE chs

\* ------------------------------------------------------------ session
getCurrentUser == session
isLoggedIn == getCurrentUser # NoUser

\* ------------------------------------------------------------ membership reads
getUserChallenges(auc, userId) ==
    IF userId = NoUser THEN <<>>
    ELSE IF userId \in DOMAIN auc THEN auc[userId] ELSE <<>>

\* mutant: the pre-check compares the record's user id, not its challenge id
hasJoinedChallenge_WrongField(auc, userId, challengeId) ==
    \E i \in 1..Len(getUserChallenges(auc, userId)) :
        getUserChallenges(auc, userId)[i].userId = challengeId

hasJoinedChallenge(auc, userId, challengeId) ==
    \E i \in 1..Len(getUserChallenges(auc, userId)) :
        getUserChallenges(auc, userId)[i].challengeId = challengeId

activeChallenges(auc, userId) ==
    SelectSeq(getUserChallenges(auc, userId), LAMBDA uc : uc.status = "active")

\* mutant: the cap is compared with > instead of >=
activeLimitReached_OffByOne(auc, userId) ==
    Len(activeChallenges(auc, userId)) > MAX_ACTIVE_CHALLENGES

\* "activeChallenges.length >= CHALLENGE_CONFIG.MAX_ACTIVE_CHALLENGES"
activeLimitReached(auc, userId) ==
    Len(activeChallenges(auc, userId)) >= MAX_ACTIVE_CHALLENGES

\* ------------------------------------------------------------ progress
\* mutant: the minutes pair starts at its target instead of 0
initializeChallengeProgress_MinutesFull(challenge) ==
    LET g == challenge.goals
        distance == IF Field(g, "totalDistance") # 0
                    THEN ("currentDistance" :> 0) @@ ("totalDistance" :> g.totalDistance)
                    ELSE <<>>
        calories == IF Field(g, "caloriesBurned") # 0
                    THEN ("currentCalories" :> 0) @@ ("totalCalories" :> g.caloriesBurned)
                    ELSE <<>>
        minutes  == IF Field(g, "totalMinutes") # 0
                    THEN ("currentMinutes" :> g.totalMinutes) @@ ("totalMinutes" :> g.totalMinutes)
                    ELSE <<>>
        sessions == IF Field(g, "totalSessions") # 0
                    THEN ("currentSessions" :> 0) @@ ("totalSessions" :> g.totalSessions)
                    ELSE <<>>
    IN  distance @@ calories @@ minutes @@ sessions

initializeChallengeProgress(challenge) ==
    LET g == challenge.goals
        distance == IF Field(g, "totalDistance") # 0
                    THEN ("currentDistance" :> 0) @@ ("totalDistance" :> g.totalDistance)
                    ELSE <<>>
        calories == IF Field(g, "caloriesBurned") # 0
                    THEN ("currentCalories" :> 0) @@ ("totalCalories" :> g.caloriesBurned)
                    ELSE <<>>
        minutes  == IF Field(g, "totalMinutes") # 0
                    THEN ("currentMinutes" :> 0) @@ ("totalMinutes" :> g.totalMinutes)
                    ELSE <<>>
        sessions == IF Field(g, "totalSessions") # 0
                    THEN ("currentSessions" :> 0) @@ ("totalSessions" :> g.totalSessions)
                    ELSE <<>>
    IN  distance @@ calories @@ minutes @@ sessions

\* the userChallenge object literal built by joinChallenge
NewUserChallenge(userId, challenge) ==
    [ userId      |-> userId,
      challengeId |-> challenge.id,
      endDate     |-> "startPlusDuration",
      status      |-> "active",
      completedAt |-> FALSE,
      progress    |-> initializeChallengeProgress(challenge) @@
                      [ currentDay        |-> 1,
                        totalDays         |-> challenge.duration,
                        completedWorkouts |-> 0,
                        totalWorkouts     |->
                            IF Field(challenge.goals, "totalWorkouts") # 0
                            THEN challenge.goals.totalWorkouts
                            ELSE challenge.duration ] ]

\* the five criteria of calculateChallengeProgress, in source order
Criteria ==
    << <<"completedWorkouts", "totalWorkouts">>,
       <<"currentDistance",   "totalDistance">>,
       <<"currentCalories",   "totalCalories">>,
       <<"currentMinutes",    "totalMinutes">>,
       <<"currentSessions",   "totalSessions">> >>

\* variant: the fraction is truncated instead of rounded
RoundHalfUp_Truncate(n, d) == n \div d

\* Math.round: nearest integer, halves towards +infinity; n/d with d > 0
RoundHalfUp(n, d) == (2 * n + d) \div (2 * d)

Min(a, b) == IF a < b THEN a ELSE b

\* variant: the rounded average is returned without the Math.min cap
calculateChallengeProgress_NoCap(userChallenge) ==
    LET progress == userChallenge.progress
        Counted(i) == Field(progress, Criteria[i][2]) # 0
        Tot(i) == IF Counted(i) THEN progress[Criteria[i][2]] ELSE 1
        Cur(i) == IF Counted(i) THEN Field(progress, Criteria[i][1]) ELSE 0
        AllTot == Tot(1) * Tot(2) * Tot(3) * Tot(4) * Tot(5)
        Numer == (Cur(1) * 100 * (AllTot \div Tot(1)))
               + (Cur(2) * 100 * (AllTot \div Tot(2)))
               + (Cur(3) * 100 * (AllTot \div Tot(3)))
               + (Cur(4) * 100 * (AllTot \div Tot(4)))
               + (Cur(5) * 100 * (AllTot \div Tot(5)))
        criteriaCount == Cardinality({i \in 1..5 : Counted(i)})
    IN  IF criteriaCount > 0
        THEN RoundHalfUp(Numer, AllTot * criteriaCount)
        ELSE 0

calculateChallengeProgress(userChallenge) ==
    LET progress == userChallenge.progress
        Counted(i) == Field(progress, Criteria[i][2]) # 0
        Tot(i) == IF Counted(i) THEN progress[Criteria[i][2]] ELSE 1
        Cur(i) == IF Counted(i) THEN Field(progress, Criteria[i][1]) ELSE 0
        AllTot == Tot(1) * Tot(2) * Tot(3) * Tot(4) * Tot(5)
        \* totalPercentage as the fraction Numer / AllTot
        Numer == (Cur(1) * 100 * (AllTot \div Tot(1)))
               + (Cur(2) * 100 * (AllTot \div Tot(2)))
               + (Cur(3) * 100 * (AllTot \div Tot(3)))
               + (Cur(4) * 100 * (AllTot \div Tot(4)))
               + (Cur(5) * 100 * (AllTot \div Tot(5)))
        criteriaCount == Cardinality({i \in 1..5 : Counted(i)})
    IN  IF criteriaCount > 0
        THEN Min(RoundHalfUp(Numer, AllTot * criteriaCount), 100)
        ELSE 0


\* allUserChallenges[user.id].push(userChallenge), creating the array if absent
PushUserChallenge(auc, userId, userChallenge) ==
    Put(auc, userId, Append(getUserChallenges(auc, userId), userChallenge))

\* index of the first record of the user's array for this challenge id (0: none)
getUserChallengeIndex(userChallenges, challengeId) ==
    IF \E i \in 1..Len(userChallenges) : userChallenges[i].challengeId = challengeId
    THEN CHOOSE i \in 1..Len(userChallenges) :
            /\ userChallenges[i].challengeId = challengeId
            /\ \A j \in 1..(i - 1) : userChallenges[j].challengeId # challengeId
    ELSE 0

\* ------------------------------------------------------------ inputs
\* progressData objects; 0 / FALSE stand for an absent (falsy) property
ProgressInputs ==
    { [distance |-> 0,  calories |-> 0, minutes |-> 0, workoutCompleted |-> TRUE],
      [distance |-> 25, calories |-> 0, minutes |-> 0, workoutCompleted |-> TRUE],
      [distance |-> 50, calories |-> 1, minutes |-> 2, workoutCompleted |-> FALSE] }

\* what getStravaActivities can produce: a rejection, or an array of activities
\* (distance in metres; calories 0 stands for a missing calories property)
StravaOutcomes ==
    { [throws |-> TRUE,  activities |-> <<>>],
      [throws |-> FALSE, activities |-> <<>>],
      [throws |-> FALSE, activities |-> << [distance |-> 25000, calories |-> 1],
                                           [distance |-> 25000, calories |-> 0] >>] }

\* what getFitbitDailyActivity can produce: a rejection, or a day summary
\* (all 0: the response carries no summary)
FitbitOutcomes ==
    { [throws |-> TRUE,  steps |-> 0,   caloriesOut |-> 0, distance |-> 0],
      [throws |-> FALSE, steps |-> 0,   caloriesOut |-> 0, distance |-> 0],
      [throws |-> FALSE, steps |-> 100, caloriesOut |-> 2, distance |-> 3] }

\* ------------------------------------------------------------ results
Result(op, challengeId, success, message) ==
    [ op          |-> op,
      user        |-> getCurrentUser,
      challengeId |-> challengeId,
      success     |-> success,
      message     |-> message,
      before      |-> ParticipantsOf(challenges, challengeId) ]

NoCall ==
    [ op |-> "none", user |-> NoUser, challengeId |-> NoChallenge,
      success |-> FALSE, message |-> "", before |-> 0 ]

\* ------------------------------------------------------------ initial states
\* a first page load: seeded catalog, empty membership store, nobody logged in
Init ==
    /\ challenges = FreshCatalog
    /\ allUserChallenges = <<>>
    /\ session = NoUser
    /\ syncs = <<>>
    /\ lastCall = NoCall
    /\ budget = MaxCalls
    /\ sessionExpired = FALSE
    /\ callStack = <<>>

\* a later page load: local storage holds a six-challenge catalog and the
\* records left by four earlier joins of user u1 (challenges "1" to "4")
CapStore ==
    ("u1" :> << NewUserChallenge("u1", CapCatalog[1]),
                NewUserChallenge("u1", CapCatalog[2]),
                NewUserChallenge("u1", CapCatalog[3]),
                NewUserChallenge("u1", CapCatalog[4]) >>)

InitCap ==
    /\ challenges = [i \in 1..Len(CapCatalog) |->
                        IF i <= 4
                        THEN [CapCatalog[i] EXCEPT !.participants = @ + 1]
                        ELSE CapCatalog[i]]
    /\ allUserChallenges = CapStore
    /\ session = NoUser
    /\ syncs = <<>>
    /\ lastCall = NoCall
    /\ budget = MaxCallsCap
    /\ sessionExpired = FALSE
    /\ callStack = <<>>

\* ------------------------------------------------------------ auth.js
\* loginUser -> saveSession
Login(u) ==
    /\ session # u
    /\ session' = u
    /\ sessionExpired' = FALSE
    /\ UNCHANGED <<challenges, allUserChallenges, syncs, lastCall, budget, callStack>>

\* logoutUser
Logout ==
    /\ session # NoUser
    /\ session' = NoUser
    /\ UNCHANGED <<challenges, allUserChallenges, syncs, lastCall, budget,
                   sessionExpired, callStack>>

\* ------------------------------------------------------------ joinChallenge
joinChallenge(challengeId) ==
    LET user == getCurrentUser
        challengeIndex == getChallengeIndex(challenges, challengeId)
        challenge == getChallengeById(challenges, challengeId)
    IN  /\ budget > 0
        /\ budget' = budget - 1
        /\ UNCHANGED <<session, syncs, sessionExpired, callStack>>
        /\ IF ~isLoggedIn
           THEN /\ lastCall' = Result("join", challengeId, FALSE,
                                      "You must be logged in to join challenges")
                /\ UNCHANGED <<challenges, allUserChallenges>>
           ELSE IF challengeIndex = 0
           THEN /\ lastCall' = Result("join", challengeId, FALSE, "Challenge not found")
                /\ UNCHANGED <<challenges, allUserChallenges>>
           ELSE IF hasJoinedChallenge(allUserChallenges, user, challengeId)
           THEN /\ lastCall' = Result("join", challengeId, FALSE,
                                      "You have already joined this challenge")
                /\ UNCHANGED <<challenges, allUserChallenges>>
           ELSE IF activeLimitReached(allUserChallenges, user)
           THEN /\ lastCall' = Result("join", challengeId, FALSE,
                                      "You can only have 5 active challenges at a time")
                /\ UNCHANGED <<challenges, allUserChallenges>>
           ELSE /\ allUserChallenges' =
                      PushUserChallenge(allUserChallenges, user,
                                        NewUserChallenge(user, challenge))
                /\ challenges' = updateChallengeParticipants(challenges, challengeId, 1)
                /\ lastCall' = Result("join", challengeId, TRUE, "Successfully joined")

\* ------------------------------------------------------------ leaveChallenge
leaveChallenge(challengeId) ==
    LET user == getCurrentUser
        userChallenges == getUserChallenges(allUserChallenges, user)
        challengeIndex == getUserChallengeIndex(userChallenges, challengeId)
    IN  /\ budget > 0
        /\ budget' = budget - 1
        /\ UNCHANGED <<session, syncs, sessionExpired, callStack>>
        /\ IF ~isLoggedIn
           THEN /\ lastCall' = Result("leave", challengeId, FALSE, "You must be logged in")
                /\ UNCHANGED <<challenges, allUserChallenges>>
           ELSE IF user \notin DOMAIN allUserChallenges
           THEN /\ lastCall' = Result("leave", challengeId, FALSE, "Challenge not found")
                /\ UNCHANGED <<challenges, allUserChallenges>>
           ELSE IF challengeIndex = 0
           THEN /\ lastCall' = Result("leave", challengeId, FALSE,
                                      "You have not joined this challenge")
                /\ UNCHANGED <<challenges, allUserChallenges>>
           ELSE /\ allUserChallenges' =
                      [allUserChallenges EXCEPT
                          ![user][challengeIndex].status = "abandoned",
                          ![user][challengeIndex].endDate = "now"]
                /\ challenges' = updateChallengeParticipants(challenges, challengeId, -1)
                /\ lastCall' = Result("leave", challengeId, TRUE, "Challenge abandoned")


\* ------------------------------------------------------------ updateChallengeProgress
\* variant: the day counter advances without the Math.min cap
applyProgressData_NoCap(progress, progressData) ==
    LET p1 == IF progressData.distance # 0
              THEN Put(progress, "currentDistance",
                       Field(progress, "currentDistance") + progressData.distance)
              ELSE progress
        p2 == IF progressData.calories # 0
              THEN Put(p1, "currentCalories",
                       Field(p1, "currentCalories") + progressData.calories)
              ELSE p1
        p3 == IF progressData.minutes # 0
              THEN Put(p2, "currentMinutes",
                       Field(p2, "currentMinutes") + progressData.minutes)
              ELSE p2
    IN  IF progressData.workoutCompleted
        THEN [p3 EXCEPT !.completedWorkouts = @ + 1,
                        !.currentDay = @ + 1]
        ELSE p3

\* variant: a supplied amount replaces the stored counter instead of being added
applyProgressData_Overwrite(progress, progressData) ==
    LET p1 == IF progressData.distance # 0
              THEN Put(progress, "currentDistance", progressData.distance)
              ELSE progress
        p2 == IF progressData.calories # 0
              THEN Put(p1, "currentCalories", progressData.calories)
              ELSE p1
        p3 == IF progressData.minutes # 0
              THEN Put(p2, "currentMinutes", progressData.minutes)
              ELSE p2
    IN  IF progressData.workoutCompleted
        THEN [p3 EXCEPT !.completedWorkouts = @ + 1,
                        !.currentDay = Min(@ + 1, p3.totalDays)]
        ELSE p3

\* variant: a completed workout is also counted as a session
applyProgressData_CountsSession(progress, progressData) ==
    LET p1 == IF progressData.distance # 0
              THEN Put(progress, "currentDistance",
                       Field(progress, "currentDistance") + progressData.distance)
              ELSE progress
        p2 == IF progressData.calories # 0
              THEN Put(p1, "currentCalories",
                       Field(p1, "currentCalories") + progressData.calories)
              ELSE p1
        p3 == IF progressData.minutes # 0
              THEN Put(p2, "currentMinutes",
                       Field(p2, "currentMinutes") + progressData.minutes)
              ELSE p2
    IN  IF progressData.workoutCompleted
        THEN [Put(p3, "currentSessions", Field(p3, "currentSessions") + 1)
                 EXCEPT !.completedWorkouts = @ + 1,
                        !.currentDay = Min(@ + 1, p3.totalDays)]
        ELSE p3

\* the progress object after the four "if (progressData.x)" blocks
applyProgressData(progress, progressData) ==
    LET p1 == IF progressData.distance # 0
              THEN Put(progress, "currentDistance",
                       Field(progress, "currentDistance") + progressData.distance)
              ELSE progress
        p2 == IF progressData.calories # 0
              THEN Put(p1, "currentCalories",
                       Field(p1, "currentCalories") + progressData.calories)
              ELSE p1
        p3 == IF progressData.minutes # 0
              THEN Put(p2, "currentMinutes",
                       Field(p2, "currentMinutes") + progressData.minutes)
              ELSE p2
    IN  IF progressData.workoutCompleted
        THEN [p3 EXCEPT !.completedWorkouts = @ + 1,
                        !.currentDay = Min(@ + 1, p3.totalDays)]
        ELSE p3

\* variant: the completion check uses > instead of >=
updatedUserChallenge_Above(userChallenge, progressData) ==
    LET mutated == [userChallenge EXCEPT
                       !.progress = applyProgressData(@, progressData)]
    IN  IF calculateChallengeProgress(mutated) > 100
        THEN [mutated EXCEPT !.status = "completed", !.completedAt = TRUE]
        ELSE mutated

\* the record after the progress blocks and the completion check
updatedUserChallenge(userChallenge, progressData) ==
    LET mutated == [userChallenge EXCEPT
                       !.progress = applyProgressData(@, progressData)]
    IN  IF calculateChallengeProgress(mutated) >= 100
        THEN [mutated EXCEPT !.status = "completed", !.completedAt = TRUE]
        ELSE mutated

\* variant: the caller's array is created before the lookup fails
updateChallengeProgress_CreatesArray(auc, user, challengeId, progressData) ==
    LET userChallenges == getUserChallenges(auc, user)
        challengeIndex == getUserChallengeIndex(userChallenges, challengeId)
    IN  IF user = NoUser
        THEN [success |-> FALSE, message |-> "You must be logged in", store |-> auc]
        ELSE IF user \notin DOMAIN auc
        THEN [success |-> FALSE, message |-> "Challenge not found",
              store |-> Put(auc, user, <<>>)]
        ELSE IF challengeIndex = 0
        THEN [success |-> FALSE, message |-> "You have not joined this challenge",
              store |-> auc]
        ELSE LET userChallenge ==
                     updatedUserChallenge(userChallenges[challengeIndex], progressData)
             IN  [success |-> TRUE, message |-> "Progress updated",
                  progress |-> userChallenge.progress,
                  completionPercentage |-> calculateChallengeProgress(userChallenge),
                  store |-> [auc EXCEPT ![user][challengeIndex] = userChallenge]]

\* the whole call as a function of the stores: the returned object and the
\* membership store it leaves behind
updateChallengeProgress(auc, user, challengeId, progressData) ==
    LET userChallenges == getUserChallenges(auc, user)
        challengeIndex == getUserChallengeIndex(userChallenges, challengeId)
    IN  IF user = NoUser
        THEN [success |-> FALSE, message |-> "You must be logged in", store |-> auc]
        ELSE IF user \notin DOMAIN auc
        THEN [success |-> FALSE, message |-> "Challenge not found", store |-> auc]
        ELSE IF challengeIndex = 0
        THEN [success |-> FALSE, message |-> "You have not joined this challenge",
              store |-> auc]
        ELSE LET userChallenge ==
                     updatedUserChallenge(userChallenges[challengeIndex], progressData)
             IN  [success |-> TRUE, message |-> "Progress updated",
                  progress |-> userChallenge.progress,
                  completionPercentage |-> calculateChallengeProgress(userChallenge),
                  store |-> [auc EXCEPT ![user][challengeIndex] = userChallenge]]

UpdateProgress(challengeId, progressData) ==
    LET r == updateChallengeProgress(allUserChallenges, getCurrentUser,
                                     challengeId, progressData)
    IN  /\ budget > 0
        /\ budget' = budget - 1
        /\ allUserChallenges' = r.store
        /\ lastCall' =
              IF r.success
              THEN Result("update", challengeId, TRUE, r.message)
                   @@ [ progress |-> r.progress,
                        completionPercentage |-> r.completionPercentage ]
              ELSE Result("update", challengeId, FALSE, r.message)
        /\ UNCHANGED <<challenges, session, syncs, sessionExpired, callStack>>

\* ------------------------------------------------------------ syncChallengeProgress
RECURSIVE SumDistanceKm(_)
SumDistanceKm(activities) ==
    IF activities = <<>> THEN 0
    ELSE (Head(activities).distance \div 1000) + SumDistanceKm(Tail(activities))

RECURSIVE SumCalories(_)
SumCalories(activities) ==
    IF activities = <<>> THEN 0
    ELSE Head(activities).calories + SumCalories(Tail(activities))

\* syncedData.source?.field, undefined read as 0
Synced(syncedData, source, field) ==
    IF source \in DOMAIN syncedData THEN syncedData[source][field] ELSE 0

\* a || b || 0
OrElse(a, b) == IF a # 0 THEN a ELSE b

progressUpdate(syncedData) ==
    [ distance |-> OrElse(Synced(syncedData, "strava", "distance"),
                          Synced(syncedData, "fitbit", "distance")),
      calories |-> OrElse(Synced(syncedData, "strava", "calories"),
                          Synced(syncedData, "fitbit", "calories")),
      minutes  |-> 0,
      workoutCompleted |-> FALSE ]

\* the suspended calls without the one at position s
RemoveAt(seq, s) ==
    [i \in 1..(Len(seq) - 1) |-> IF i < s THEN seq[i] ELSE seq[i + 1]]

\* the call up to its first await
SyncStart(challengeId) ==
    LET challengeIndex == getChallengeIndex(challenges, challengeId)
        challenge == getChallengeById(challenges, challengeId)
    IN  /\ budget > 0
        /\ Len(syncs) < MaxSyncs
        /\ budget' = budget - 1
        /\ UNCHANGED <<challenges, allUserChallenges, session, sessionExpired, callStack>>
        /\ IF challengeIndex = 0
           THEN /\ lastCall' = Result("sync", challengeId, FALSE, "Challenge not found")
                /\ UNCHANGED syncs
           ELSE /\ syncs' = Append(syncs,
                               [ pc |-> IF challenge.category \in {"running", "cycling"}
                                        THEN "strava" ELSE "fitbit",
                                 challengeId |-> challengeId,
                                 syncedData |-> <<>> ])
                /\ UNCHANGED lastCall

\* await getStravaActivities(...) settles; the call runs on to the Fitbit await
SyncStrava(s, outcome) ==
    /\ s <= Len(syncs)
    /\ syncs[s].pc = "strava"
    /\ syncs' = [syncs EXCEPT
                   ![s].pc = "fitbit",
                   ![s].syncedData =
                       IF outcome.throws THEN @
                       ELSE Put(@, "strava",
                                [ distance |-> SumDistanceKm(outcome.activities),
                                  calories |-> SumCalories(outcome.activities) ])]
    /\ UNCHANGED <<challenges, allUserChallenges, session, lastCall, budget, sessionExpired, callStack>>

\* variant: a rejection of the Fitbit fetch is not caught around the await and
\* ends the call in the outer catch
SyncFitbit_Propagates(s, outcome) ==
    LET challengeId == syncs[s].challengeId
        syncedData == Put(syncs[s].syncedData, "fitbit",
                          [ distance |-> outcome.distance,
                            calories |-> outcome.caloriesOut ])
        r == updateChallengeProgress(allUserChallenges, getCurrentUser,
                                     challengeId, progressUpdate(syncedData))
    IN  /\ s <= Len(syncs)
        /\ syncs[s].pc = "fitbit"
        /\ syncs' = RemoveAt(syncs, s)
        /\ IF ~outcome.throws
           THEN /\ allUserChallenges' = r.store
                /\ lastCall' = Result("sync", challengeId, TRUE,
                                      "Progress synced successfully")
                                @@ [ syncedData |-> syncedData ]
           ELSE /\ UNCHANGED allUserChallenges
                /\ lastCall' = Result("sync", challengeId, FALSE,
                                      "An error occurred while syncing")
        /\ UNCHANGED <<challenges, session, budget, sessionExpired, callStack>>

\* await getFitbitDailyActivity() settles; the call merges, updates and returns
SyncFitbit(s, outcome) ==
    LET challengeId == syncs[s].challengeId
        syncedData == IF outcome.throws THEN syncs[s].syncedData
                      ELSE Put(syncs[s].syncedData, "fitbit",
                               [ distance |-> outcome.distance,
                                 calories |-> outcome.caloriesOut ])
        r == updateChallengeProgress(allUserChallenges, getCurrentUser,
                                     challengeId, progressUpdate(syncedData))
    IN  /\ s <= Len(syncs)
        /\ syncs[s].pc = "fitbit"
        /\ syncs' = RemoveAt(syncs, s)
        /\ IF DOMAIN syncedData # {}
           THEN /\ allUserChallenges' = r.store
                /\ lastCall' = Result("sync", challengeId, TRUE,
                                      "Progress synced successfully")
                                @@ [ syncedData |-> syncedData ]
           ELSE /\ UNCHANGED allUserChallenges
                /\ lastCall' = Result("sync", challengeId, FALSE,
                                      "No data available to sync")
        /\ UNCHANGED <<challenges, session, budget, sessionExpired, callStack>>

\* ------------------------------------------------------------ specification
Next ==
    \/ \E u \in Users : Login(u)
    \/ Logout
    \/ \E c \in ChallengeIds : joinChallenge(c)
    \/ \E c \in ChallengeIds : leaveChallenge(c)
    \/ \E c \in ChallengeIds, pd \in ProgressInputs : UpdateProgress(c, pd)
    \/ \E c \in ChallengeIds : SyncStart(c)
    \/ \E s \in 1..MaxSyncs, o \in StravaOutcomes : SyncStrava(s, o)
    \/ \E s \in 1..MaxSyncs, o \in FitbitOutcomes : SyncFitbit(s, o)

Spec == Init /\ [][Next]_vars

SpecCap == InitCap /\ [][Next]_vars

\* ------------------------------------------------------------ calculateChallengeProgress
\* argument objects of the exported calculateChallengeProgress: each kind's
\* (current, total) pair drawn from a small set, a total of 0 standing for a
\* target that is 0 or absent, a current of MaxAmount + 1 lying above every
\* target
ProgressSnapshots ==
    { [ completedWorkouts |-> w[1], totalWorkouts |-> w[2],
        currentDistance   |-> d[1], totalDistance |-> d[2],
        currentCalories   |-> c[1], totalCalories |-> c[2],
        currentMinutes    |-> m[1], totalMinutes  |-> m[2],
        currentSessions   |-> n[1], totalSessions |-> n[2],
        currentDay        |-> 1,    totalDays     |-> 1 ] :
        w \in {0, 1, MaxAmount + 1} \X (0..MaxAmount),
        d \in {0, 1, MaxAmount + 1} \X (0..MaxAmount),
        m \in {<<0, 0>>, <<1, MaxAmount>>, <<MaxAmount + 1, 1>>},
        c \in {<<0, 0>>, <<1, MaxAmount>>},
        n \in {<<0, 0>>, <<0, 1>>} }

\* u1 is logged in and holds one record for challenge "1" whose progress is
\* one of the snapshots, with the status the completion check leaves it in
InitCalc ==
    /\ challenges = FreshCatalog
    /\ \E progress \in ProgressSnapshots :
          allUserChallenges =
              ("u1" :> << updatedUserChallenge(
                             [NewUserChallenge("u1", FreshCatalog[1])
                                 EXCEPT !.progress = progress],
                             [distance |-> 0, calories |-> 0, minutes |-> 0,
                              workoutCompleted |-> FALSE]) >>)
    /\ session = "u1"
    /\ syncs = <<>>
    /\ lastCall = NoCall
    /\ budget = MaxCallsCalc
    /\ sessionExpired = FALSE
    /\ callStack = <<>>

\* a direct call of calculateChallengeProgress on the i-th record of user u
Calculate(u, i) ==
    /\ u \in DOMAIN allUserChallenges
    /\ i \in 1..Len(allUserChallenges[u])
    /\ lastCall' = Result("calculate", allUserChallenges[u][i].challengeId, TRUE, "")
                    @@ [ progress |-> allUserChallenges[u][i].progress,
                         completionPercentage |->
                             calculateChallengeProgress(allUserChallenges[u][i]) ]
    /\ UNCHANGED <<challenges, allUserChallenges, session, syncs, budget, sessionExpired, callStack>>

NextCalc ==
    \/ \E u \in Users :
          \E i \in 1..Len(getUserChallenges(allUserChallenges, u)) : Calculate(u, i)
    \/ \E c \in ChallengeIds, pd \in ProgressInputs : UpdateProgress(c, pd)

SpecCalc == InitCalc /\ [][NextCalc]_vars

\* ------------------------------------------------------------ session switch
\* both users joined challenge "X" earlier; u1 is logged in and has a
\* syncChallengeProgress("X") call suspended at its first await
InitSwitch ==
    /\ challenges = updateChallengeParticipants(
                        updateChallengeParticipants(FreshCatalog, "X", 1), "X", 1)
    /\ allUserChallenges =
          ("u1" :> << NewUserChallenge("u1", FreshCatalog[2]) >>)
          @@ ("u2" :> << NewUserChallenge("u2", FreshCatalog[2]) >>)
    /\ session = "u1"
    /\ syncs = << [ pc |-> "strava", challengeId |-> "X", syncedData |-> <<>> ] >>
    /\ lastCall = NoCall
    /\ budget = MaxCallsSwitch
    /\ sessionExpired = FALSE
    /\ callStack = <<>>

\* what can happen while that call is in flight: the session changes, other
\* calls are made, the awaits settle; no further sync is started
NextSwitch ==
    \/ \E u \in Users : Login(u)
    \/ Logout
    \/ \E c \in ChallengeIds : joinChallenge(c)
    \/ \E c \in ChallengeIds : leaveChallenge(c)
    \/ \E c \in ChallengeIds, pd \in ProgressInputs : UpdateProgress(c, pd)
    \/ \E s \in 1..MaxSyncs, o \in StravaOutcomes : SyncStrava(s, o)
    \/ \E s \in 1..MaxSyncs, o \in FitbitOutcomes : SyncFitbit(s, o)

SpecSwitch == InitSwitch /\ [][NextSwitch]_vars

\* ------------------------------------------------------------ overlapping syncs
\* u1 is logged in, holds an active record for challenge "X" and has two
\* syncChallengeProgress("X") calls suspended at their first await
InitOverlap ==
    /\ challenges = updateChallengeParticipants(FreshCatalog, "X", 1)
    /\ allUserChallenges = ("u1" :> << NewUserChallenge("u1", FreshCatalog[2]) >>)
    /\ session = "u1"
    /\ syncs = << [ pc |-> "strava", challengeId |-> "X", syncedData |-> <<>> ],
                  [ pc |-> "strava", challengeId |-> "X", syncedData |-> <<>> ] >>
    /\ lastCall = NoCall
    /\ budget = MaxCallsSwitch
    /\ sessionExpired = FALSE
    /\ callStack = <<>>

SpecOverlap == InitOverlap /\ [][NextSwitch]_vars

\* ------------------------------------------------------------ auth.js, step by step
\* a first page load with nobody logged in
InitAuth ==
    /\ challenges = FreshCatalog
    /\ allUserChallenges = <<>>
    /\ session = NoUser
    /\ syncs = <<>>
    /\ lastCall = NoCall
    /\ budget = 0
    /\ sessionExpired = FALSE
    /\ callStack = <<>>

\* an activation: the function, where it stands ("entry": about to run its
\* body, "called": waiting for or back from the call it made) and the session
\* storage it found on entry
Frame(fn) ==
    [ fn |-> fn, pc |-> "entry", found |-> <<session, sessionExpired>> ]

\* the object recorded when the outermost activation returns
AuthResult(fn, user) ==
    [ op |-> fn, user |-> user, challengeId |-> NoChallenge,
      success |-> TRUE, message |-> "", before |-> 0 ]

\* the stack after its top activation returned, and what the caller sees
Return(fn, user) ==
    /\ callStack' = SubSeq(callStack, 1, Len(callStack) - 1)
    /\ lastCall' = IF Len(callStack) = 1 THEN AuthResult(fn, user) ELSE lastCall

\* the stack after its top activation called fn
Call(fn) ==
    callStack' = Append([callStack EXCEPT ![Len(callStack)].pc = "called"], Frame(fn))

\* the top activation is about to make a call
AboutToCall ==
    /\ callStack # <<>>
    /\ callStack[Len(callStack)].pc = "entry"
    /\ \/ callStack[Len(callStack)].fn = "logoutUser"
       \/ /\ callStack[Len(callStack)].fn = "getCurrentUser"
          /\ session # NoUser
          /\ sessionExpired

\* now > expiresAt becomes true for the stored session
Expire ==
    /\ callStack = <<>>
    /\ session # NoUser
    /\ ~sessionExpired
    /\ sessionExpired' = TRUE
    /\ UNCHANGED <<challenges, allUserChallenges, session, syncs, lastCall, budget,
                   callStack>>

\* the page calls getCurrentUser() or logoutUser()
AuthCall(fn) ==
    /\ callStack = <<>>
    /\ callStack' = << Frame(fn) >>
    /\ UNCHANGED <<challenges, allUserChallenges, session, syncs, lastCall, budget,
                   sessionExpired>>

\* the top activation runs to its next call or to its return
AuthStep ==
    LET top == callStack[Len(callStack)]
    IN  /\ callStack # <<>>
        /\ UNCHANGED <<challenges, allUserChallenges, syncs, budget>>
        /\ IF top.fn = "getCurrentUser"
           THEN /\ UNCHANGED <<session, sessionExpired>>
                /\ IF top.pc = "called" THEN Return("getCurrentUser", NoUser)
                   ELSE IF session = NoUser THEN Return("getCurrentUser", NoUser)
                   ELSE IF sessionExpired
                   THEN /\ Len(callStack) < MaxDepth
                        /\ Call("logoutUser")
                        /\ UNCHANGED lastCall
                   ELSE Return("getCurrentUser", session)
           ELSE IF top.pc = "entry"
                THEN /\ Len(callStack) < MaxDepth
                     /\ Call("getCurrentUser")
                     /\ UNCHANGED <<session, sessionExpired, lastCall>>
                ELSE /\ session' = NoUser
                     /\ sessionExpired' = FALSE
                     /\ Return("logoutUser", NoUser)

\* the call the top activation is about to make exceeds the engine's stack:
\* the RangeError is caught by the catch block of the k-th activation from
\* the top (the catch blocks above it overflow themselves while logging),
\* which returns without finishing its body
AuthOverflow(k) ==
    /\ AboutToCall
    /\ Len(callStack) = MaxDepth
    /\ k \in 1..(Len(callStack) - 1)
    /\ callStack' = SubSeq(callStack, 1, Len(callStack) - k)
    /\ UNCHANGED <<challenges, allUserChallenges, session, syncs, lastCall, budget,
                   sessionExpired>>

NextAuth ==
    \/ \E u \in Users : callStack = <<>> /\ Login(u)
    \/ Expire
    \/ \E fn \in {"getCurrentUser", "logoutUser"} : AuthCall(fn)
    \/ AuthStep
    \/ \E k \in 1..MaxDepth : AuthOverflow(k)

SpecAuth == InitAuth /\ [][NextAuth]_vars

\* ====================================================================
\* Properties
\* ====================================================================

\* indices of the records user u holds for challenge c
RecordsFor(u, c) ==
    {i \in 1..Len(getUserChallenges(allUserChallenges, u)) :
        allUserChallenges[u][i].challengeId = c}

\* indices of the records user u holds for challenge c with status "active"
ActiveRecordsFor(u, c) ==
    {i \in RecordsFor(u, c) : allUserChallenges[u][i].status = "active"}

\* number of records of user u with status "active"
ActiveCount(u) ==
    Cardinality({i \in 1..Len(getUserChallenges(allUserChallenges, u)) :
                    allUserChallenges[u][i].status = "active"})

\* this step is a call of op on challenge c that has returned
IsCall(op, c) ==
    /\ budget' = budget - 1
    /\ syncs' = syncs
    /\ lastCall'.op = op
    /\ lastCall'.challengeId = c

LimitMessage == "You can only have 5 active challenges at a time"

\* C1: in every reachable state each user holds at most one record with
\* status "active" for any given challenge id.
C1_OneActivePerPair ==
    \A u \in DOMAIN allUserChallenges :
        \A i, j \in 1..Len(allUserChallenges[u]) :
            ( /\ allUserChallenges[u][i].challengeId = allUserChallenges[u][j].challengeId
              /\ allUserChallenges[u][i].status = "active"
              /\ allUserChallenges[u][j].status = "active" ) => i = j

\* a second join of a challenge the caller is still active in was rejected
C1_Witness ==
    /\ lastCall.op = "join"
    /\ ~lastCall.success
    /\ lastCall.message = "You have already joined this challenge"
    /\ lastCall.user \in DOMAIN allUserChallenges
    /\ Cardinality(ActiveRecordsFor(lastCall.user, lastCall.challengeId)) = 1

\* C2: in every reachable state no user holds more than 5
\* (MAX_ACTIVE_CHALLENGES) records with status "active".
C2_ActiveCap ==
    \A u \in DOMAIN allUserChallenges : ActiveCount(u) <= 5

\* a user holds exactly five active records
C2_Witness ==
    \E u \in DOMAIN allUserChallenges : ActiveCount(u) = 5

\* C3: a join by a user who holds 5 active records, for an existing challenge
\* the user has no record for, returns the limit failure, appends no record
\* and changes no participants counter.
C3_SixthJoinRejected ==
    [][\A c \in ChallengeIds :
        ( /\ IsCall("join", c)
          /\ session # NoUser
          /\ ActiveCount(session) = 5
          /\ getChallengeIndex(challenges, c) # 0
          /\ RecordsFor(session, c) = {} )
        => ( /\ ~lastCall'.success
             /\ lastCall'.message = LimitMessage
             /\ allUserChallenges' = allUserChallenges
             /\ challenges' = challenges )]_vars

\* the sixth join has been rejected with the limit message
C3_Witness ==
    /\ lastCall.op = "join"
    /\ ~lastCall.success
    /\ lastCall.message = LimitMessage
    /\ lastCall.user \in DOMAIN allUserChallenges
    /\ ActiveCount(lastCall.user) = 5
    /\ RecordsFor(lastCall.user, lastCall.challengeId) = {}
    /\ getChallengeIndex(challenges, lastCall.challengeId) # 0

\* C4: a successful join of c by u appends exactly one record for (u, c) with
\* status "active", currentDay 1, totalDays c.duration and completedWorkouts 0,
\* adds 1 to c.participants, and changes no other record or counter.
C4_JoinEffect ==
    [][\A c \in ChallengeIds :
        (IsCall("join", c) /\ lastCall'.success) =>
            LET u == session
                old == getUserChallenges(allUserChallenges, u)
                new == getUserChallenges(allUserChallenges', u)
                rec == new[Len(new)]
                idx == getChallengeIndex(challenges, c)
            IN  /\ u # NoUser
                /\ idx # 0
                /\ DOMAIN allUserChallenges' = DOMAIN allUserChallenges \cup {u}
                /\ Len(new) = Len(old) + 1
                /\ SubSeq(new, 1, Len(old)) = old
                /\ rec.userId = u
                /\ rec.challengeId = c
                /\ rec.status = "active"
                /\ rec.progress.currentDay = 1
                /\ rec.progress.totalDays = challenges[idx].duration
                /\ rec.progress.completedWorkouts = 0
                /\ \A v \in DOMAIN allUserChallenges \ {u} :
                       allUserChallenges'[v] = allUserChallenges[v]
                /\ Len(challenges') = Len(challenges)
                /\ \A i \in 1..Len(challenges) :
                       challenges'[i] =
                           IF i = idx
                           THEN [challenges[i] EXCEPT !.participants = @ + 1]
                           ELSE challenges[i]]_vars

\* a join has succeeded while another user already held records
C4_Witness ==
    /\ lastCall.op = "join"
    /\ lastCall.success
    /\ \E v \in DOMAIN allUserChallenges : v # lastCall.user
    /\ ParticipantsOf(challenges, lastCall.challengeId) = lastCall.before + 1


\* goal kind of challenge.goals, and the progress pair that tracks it
KindPairs ==
    << <<"totalWorkouts",  "completedWorkouts", "totalWorkouts">>,
       <<"totalDistance",  "currentDistance",   "totalDistance">>,
       <<"caloriesBurned", "currentCalories",   "totalCalories">>,
       <<"totalMinutes",   "currentMinutes",    "totalMinutes">>,
       <<"totalSessions",  "currentSessions",   "totalSessions">> >>

\* progress holds the pair of kind k, initialised to (0, target)
PairSeeded(progress, k, target) ==
    /\ KindPairs[k][2] \in DOMAIN progress
    /\ KindPairs[k][3] \in DOMAIN progress
    /\ progress[KindPairs[k][2]] = 0
    /\ progress[KindPairs[k][3]] = target

\* progress holds neither field of the pair of kind k
PairAbsent(progress, k) ==
    /\ KindPairs[k][2] \notin DOMAIN progress
    /\ KindPairs[k][3] \notin DOMAIN progress

\* the record appended by the join of this step, and the challenge joined
JoinedRecord ==
    LET new == getUserChallenges(allUserChallenges', session) IN new[Len(new)]

\* C5 as claimed: the record created by joining C tracks a pair for exactly
\* the goal kinds C.goals lists, each initialised to (0, target).
C5_ExactlyListedKinds ==
    [][\A c \in ChallengeIds :
        (IsCall("join", c) /\ lastCall'.success) =>
            LET goals == getChallengeById(challenges, c).goals
            IN  \A k \in 1..5 :
                   IF KindPairs[k][1] \in DOMAIN goals
                   THEN PairSeeded(JoinedRecord.progress, k, goals[KindPairs[k][1]])
                   ELSE PairAbsent(JoinedRecord.progress, k)]_vars

\* C5 amended: the record created by joining C tracks the distance, calories,
\* minutes and sessions pairs for exactly those of these kinds that C.goals
\* lists with a non-zero target, each initialised to (0, target); the
\* completedWorkouts/totalWorkouts pair is always present, initialised to
\* (0, C.goals.totalWorkouts) when that goal is listed and non-zero and to
\* (0, C.duration) otherwise; besides currentDay and totalDays the progress
\* has no other field.
C5_ListedKindsAndWorkouts ==
    [][\A c \in ChallengeIds :
        (IsCall("join", c) /\ lastCall'.success) =>
            LET challenge == getChallengeById(challenges, c)
                goals == challenge.goals
                progress == JoinedRecord.progress
                Listed(k) == /\ KindPairs[k][1] \in DOMAIN goals
                             /\ goals[KindPairs[k][1]] # 0
            IN  /\ \A k \in 2..5 :
                       IF Listed(k)
                       THEN PairSeeded(progress, k, goals[KindPairs[k][1]])
                       ELSE PairAbsent(progress, k)
                /\ PairSeeded(progress, 1,
                              IF Listed(1) THEN goals.totalWorkouts
                              ELSE challenge.duration)
                /\ DOMAIN progress =
                       {"currentDay", "totalDays"} \cup
                       UNION {{KindPairs[k][2], KindPairs[k][3]} :
                                 k \in {1} \cup {j \in 2..5 : Listed(j)}}]_vars

\* a challenge that lists no totalWorkouts goal has been joined
C5_Witness ==
    /\ lastCall.op = "join"
    /\ lastCall.success
    /\ "totalWorkouts" \notin
           DOMAIN getChallengeById(challenges, lastCall.challengeId).goals
    /\ \E i \in RecordsFor(lastCall.user, lastCall.challengeId) :
           allUserChallenges[lastCall.user][i].progress.totalWorkouts =
               getChallengeById(challenges, lastCall.challengeId).duration

\* C6 as claimed: a join succeeds whenever the caller is logged in, the
\* challenge exists, the caller holds no active record for it and holds fewer
\* than 5 active records (so a challenge left or completed can be joined again).
C6_JoinSucceedsOnPreconditions ==
    [][\A c \in ChallengeIds :
        ( /\ IsCall("join", c)
          /\ session # NoUser
          /\ getChallengeIndex(challenges, c) # 0
          /\ ActiveRecordsFor(session, c) = {}
          /\ ActiveCount(session) < 5 )
        => lastCall'.success]_vars

\* C7 as claimed: a leave by a caller whose records for c are all completed
\* or abandoned returns the not-joined failure and changes neither store.
C7_LeaveOnlyNonTerminal ==
    [][\A c \in ChallengeIds :
        ( /\ IsCall("leave", c)
          /\ session # NoUser
          /\ RecordsFor(session, c) # {}
          /\ ActiveRecordsFor(session, c) = {} )
        => ( /\ ~lastCall'.success
             /\ lastCall'.message = "You have not joined this challenge"
             /\ allUserChallenges' = allUserChallenges
             /\ challenges' = challenges )]_vars

\* C8 as claimed: a record whose status is completed or abandoned keeps that
\* status in every later state.
C8_TerminalStatusStays ==
    [][\A u \in DOMAIN allUserChallenges :
        \A i \in 1..Len(allUserChallenges[u]) :
            allUserChallenges[u][i].status \in {"completed", "abandoned"}
            => allUserChallenges'[u][i].status = allUserChallenges[u][i].status]_vars

\* C9 as claimed: every participants counter is non-negative in every
\* reachable state.
C9_ParticipantsNonNegative ==
    \A i \in 1..Len(challenges) : challenges[i].participants >= 0

\* C10: when a successful join of c by u is followed by u's leave of c, the
\* leave succeeds, c.participants is back at its value before the join and
\* the record's status is abandoned.
C10_LeaveUndoesJoin ==
    [][\A c \in ChallengeIds :
        ( /\ IsCall("leave", c)
          /\ lastCall.op = "join"
          /\ lastCall.success
          /\ lastCall.challengeId = c
          /\ lastCall.user = session )
        => ( /\ lastCall'.success
             /\ ParticipantsOf(challenges', c) = lastCall.before
             /\ \A i \in RecordsFor(session, c) :
                    allUserChallenges'[session][i].status = "abandoned" )]_vars

\* the two calls made so far are a join and the leave that followed it
C10_Witness ==
    /\ budget = MaxCalls - 2
    /\ lastCall.op = "leave"
    /\ lastCall.success
    /\ Len(getUserChallenges(allUserChallenges, lastCall.user)) = 1
    /\ \A u \in DOMAIN allUserChallenges : u = lastCall.user
    /\ allUserChallenges[lastCall.user][1].status = "abandoned"
    /\ allUserChallenges[lastCall.user][1].challengeId = lastCall.challengeId
    /\ challenges = FreshCatalog

\* C11: a progress update, made directly or by a sync, leaves the progress
\* fields of a record whose status is already "completed" or "abandoned"
\* exactly as they were.
C11_TerminalProgressFrozen ==
    [][\A u \in DOMAIN allUserChallenges :
          \A i \in 1..Len(allUserChallenges[u]) :
              allUserChallenges[u][i].status \in {"completed", "abandoned"}
                  => allUserChallenges'[u][i].progress
                         = allUserChallenges[u][i].progress]_vars

\* C12: in every reachable state every record's day counter satisfies
\* 1 <= currentDay <= totalDays, however many workoutCompleted updates were
\* applied after the join.
C12_DayWithinRange ==
    \A u \in DOMAIN allUserChallenges :
        \A i \in 1..Len(allUserChallenges[u]) :
            /\ 1 <= allUserChallenges[u][i].progress.currentDay
            /\ allUserChallenges[u][i].progress.currentDay
                   <= allUserChallenges[u][i].progress.totalDays

\* a record that completed a workout on its last day: the counter stayed at
\* totalDays although one more workout was counted
C12_Witness ==
    \E u \in DOMAIN allUserChallenges :
        \E i \in 1..Len(allUserChallenges[u]) :
            /\ allUserChallenges[u][i].progress.completedWorkouts + 1
                   > allUserChallenges[u][i].progress.totalDays
            /\ allUserChallenges[u][i].progress.currentDay
                   = allUserChallenges[u][i].progress.totalDays

\* the last call returned a completion percentage
ReturnedPercentage ==
    /\ lastCall.op \in {"calculate", "update"}
    /\ lastCall.success

Kinds == {"Workouts", "Distance", "Calories", "Minutes", "Sessions"}

CurrentField ==
    [ Workouts |-> "completedWorkouts", Distance |-> "currentDistance",
      Calories |-> "currentCalories",   Minutes  |-> "currentMinutes",
      Sessions |-> "currentSessions" ]

TotalField ==
    [ Workouts |-> "totalWorkouts", Distance |-> "totalDistance",
      Calories |-> "totalCalories", Minutes  |-> "totalMinutes",
      Sessions |-> "totalSessions" ]

\* the kinds whose target is present and non-zero
TrackedKinds(progress) == {k \in Kinds : Field(progress, TotalField[k]) # 0}

\* product of the targets of the given kinds
RECURSIVE TargetProduct(_, _)
TargetProduct(progress, kinds) ==
    IF kinds = {} THEN 1
    ELSE LET k == CHOOSE x \in kinds : TRUE
         IN  progress[TotalField[k]] * TargetProduct(progress, kinds \ {k})

\* sum over the given kinds of current / target * 100, times scale (a
\* multiple of every target)
RECURSIVE ScaledPercentSum(_, _, _)
ScaledPercentSum(progress, kinds, scale) ==
    IF kinds = {} THEN 0
    ELSE LET k == CHOOSE x \in kinds : TRUE
         IN  Field(progress, CurrentField[k]) * 100 * (scale \div progress[TotalField[k]])
             + ScaledPercentSum(progress, kinds \ {k}, scale)

\* r is the reference percentage of the snapshot: with a the unclamped
\* average of the tracked kinds' percentages, r = 100 when a >= 99.5 and
\* otherwise r is the integer with r - 1/2 <= a < r + 1/2; 0 when no kind is
\* tracked
IsReferencePercentage(progress, r) ==
    LET tracked == TrackedKinds(progress)
        count == Cardinality(tracked)
        scale == TargetProduct(progress, tracked)
        sum == ScaledPercentSum(progress, tracked, scale)
    IN  IF count = 0 THEN r = 0
        ELSE \/ r = 100 /\ 2 * sum >= 199 * count * scale
             \/ /\ r \in Int
                /\ r < 100
                /\ (2 * r - 1) * count * scale <= 2 * sum
                /\ 2 * sum < (2 * r + 1) * count * scale

\* C14: for every progress snapshot calculateChallengeProgress equals the
\* reference function: over the kinds with a non-zero target, the average of
\* current / target * 100 (no clamping per kind), rounded half-up once and
\* then capped at 100; 0 when no kind is tracked.
C14_MatchesReference ==
    /\ \A u \in DOMAIN allUserChallenges :
          \A i \in 1..Len(allUserChallenges[u]) :
              IsReferencePercentage(allUserChallenges[u][i].progress,
                                    calculateChallengeProgress(allUserChallenges[u][i]))
    /\ ReturnedPercentage
          => IsReferencePercentage(lastCall.progress, lastCall.completionPercentage)

\* a direct call on a snapshot with several tracked kinds, one of them above
\* its target, whose average lies exactly half-way between two integers
C14_Witness ==
    /\ lastCall.op = "calculate"
    /\ lastCall.completionPercentage < 100
    /\ Cardinality(TrackedKinds(lastCall.progress)) >= 2
    /\ \E k \in TrackedKinds(lastCall.progress) :
          lastCall.progress[CurrentField[k]] > lastCall.progress[TotalField[k]]
    /\ LET tracked == TrackedKinds(lastCall.progress)
           scale == TargetProduct(lastCall.progress, tracked)
       IN  2 * ScaledPercentSum(lastCall.progress, tracked, scale)
               = (2 * lastCall.completionPercentage - 1) * Cardinality(tracked) * scale

\* this step is the return of a suspended sync call on challenge c
IsSyncReturn(c) ==
    /\ Len(syncs') = Len(syncs) - 1
    /\ lastCall'.op = "sync"
    /\ lastCall'.challengeId = c

\* index of the caller's record for challenge c (0: the caller has none)
CallerIndex(c) ==
    getUserChallengeIndex(getUserChallenges(allUserChallenges, session), c)

\* this step applied a progress update to the caller's active record for c
UpdatedActiveRecord(c) ==
    /\ \/ IsCall("update", c)
       \/ IsSyncReturn(c)
    /\ lastCall'.success
    /\ CallerIndex(c) # 0
    /\ allUserChallenges[session][CallerIndex(c)].status = "active"

\* C15: after every successful update on an active record the record is
\* "completed" with completedAt set exactly when its recomputed percentage
\* is at least 100, and is still "active" otherwise; so a record whose only
\* tracked kind is workouts (totalWorkouts 2, duration 2) is completed by the
\* second workoutCompleted update and not by the first.
C15_CompletedIffHundred ==
    [][\A c \in ChallengeIds :
          UpdatedActiveRecord(c) =>
              LET after == allUserChallenges'[session][CallerIndex(c)]
              IN  /\ IF calculateChallengeProgress(after) >= 100
                     THEN after.status = "completed" /\ after.completedAt
                     ELSE after.status = "active" /\ ~after.completedAt
                  /\ TrackedKinds(after.progress) = {"Workouts"}
                        => ( after.status = "completed"
                               <=> after.progress.completedWorkouts
                                      >= after.progress.totalWorkouts )]_vars

\* the record for the challenge with totalWorkouts 2 and duration 2 was just
\* completed by its second workoutCompleted update
C15_Witness ==
    /\ lastCall.op = "update"
    /\ lastCall.success
    /\ lastCall.completionPercentage = 100
    /\ lastCall.progress.totalWorkouts = 2
    /\ lastCall.progress.totalDays = 2
    /\ lastCall.progress.completedWorkouts = 2
    /\ \E i \in RecordsFor(lastCall.user, lastCall.challengeId) :
          /\ allUserChallenges[lastCall.user][i].progress = lastCall.progress
          /\ allUserChallenges[lastCall.user][i].status = "completed"
          /\ allUserChallenges[lastCall.user][i].completedAt

\* the amount a delta supplies for a progress field (0: the field is not named)
SuppliedAmount(progressData, field) ==
    CASE field = "currentDistance"   -> progressData.distance
      [] field = "currentCalories"   -> progressData.calories
      [] field = "currentMinutes"    -> progressData.minutes
      [] field = "completedWorkouts" -> IF progressData.workoutCompleted THEN 1 ELSE 0
      [] OTHER -> 0

\* C16: a successful updateChallengeProgress(c, delta) adds each supplied
\* amount to currentDistance, currentCalories and currentMinutes (a missing
\* field counting as 0), adds 1 to completedWorkouts and sets currentDay to
\* min(currentDay + 1, totalDays) when workoutCompleted is truthy, leaves every
\* field the delta does not name unchanged, and returns the progress and the
\* percentage of the stored record.
C16_UpdateEffect ==
    [][\A c \in ChallengeIds, pd \in ProgressInputs :
          (UpdateProgress(c, pd) /\ lastCall'.success) =>
              LET i == CallerIndex(c)
                  before == allUserChallenges[session][i]
                  after == allUserChallenges'[session][i]
              IN  /\ \A f \in (DOMAIN before.progress \cup DOMAIN after.progress)
                                 \ {"currentDay"} :
                        /\ Field(after.progress, f)
                               = Field(before.progress, f) + SuppliedAmount(pd, f)
                        /\ f \notin DOMAIN before.progress => SuppliedAmount(pd, f) # 0
                        /\ f \in DOMAIN after.progress
                  /\ after.progress.currentDay =
                        IF pd.workoutCompleted
                        THEN Min(before.progress.currentDay + 1, before.progress.totalDays)
                        ELSE before.progress.currentDay
                  /\ after.userId = before.userId
                  /\ after.challengeId = before.challengeId
                  /\ after.endDate = before.endDate
                  /\ \A u \in DOMAIN allUserChallenges :
                        /\ Len(allUserChallenges'[u]) = Len(allUserChallenges[u])
                        /\ \A j \in 1..Len(allUserChallenges[u]) :
                              (u # session \/ j # i)
                                  => allUserChallenges'[u][j] = allUserChallenges[u][j]
                  /\ DOMAIN allUserChallenges' = DOMAIN allUserChallenges
                  /\ challenges' = challenges
                  /\ lastCall'.progress = after.progress
                  /\ IsReferencePercentage(after.progress,
                                           lastCall'.completionPercentage)]_vars

\* the scenario of the claim: on the challenge with duration 10, totalDistance
\* 50 and totalWorkouts 5, the update {distance: 25, workoutCompleted: true}
\* after the join returned 35 percent with currentDay 2 and left the record
\* active
C16_Witness ==
    /\ lastCall.op = "update"
    /\ lastCall.success
    /\ lastCall.completionPercentage = 35
    /\ lastCall.progress.totalDays = 10
    /\ lastCall.progress.totalDistance = 50
    /\ lastCall.progress.totalWorkouts = 5
    /\ lastCall.progress.currentDistance = 25
    /\ lastCall.progress.completedWorkouts = 1
    /\ lastCall.progress.currentDay = 2
    /\ \E i \in RecordsFor(lastCall.user, lastCall.challengeId) :
          /\ allUserChallenges[lastCall.user][i].progress = lastCall.progress
          /\ allUserChallenges[lastCall.user][i].status = "active"

\* C17: every joinChallenge, leaveChallenge or updateChallengeProgress call
\* that returns success:false leaves the catalog (participant counts
\* included) and the membership store exactly as they were.
C17_FailureChangesNothing ==
    [][\A op \in {"join", "leave", "update"}, c \in ChallengeIds :
          (IsCall(op, c) /\ ~lastCall'.success)
              => /\ challenges' = challenges
                 /\ allUserChallenges' = allUserChallenges]_vars

\* a call failed although the stores are not empty: the caller holds records
\* and asked to leave a challenge that is not among them
C17_Witness ==
    /\ lastCall.op = "leave"
    /\ ~lastCall.success
    /\ lastCall.message = "You have not joined this challenge"
    /\ lastCall.user \in DOMAIN allUserChallenges
    /\ Len(allUserChallenges[lastCall.user]) >= 1
    /\ RecordsFor(lastCall.user, lastCall.challengeId) = {}

\* the value the first-available rule picks for a field of the sync delta: the
\* primary source's (Strava) when it returned a reading, whatever the value,
\* otherwise the secondary source's (Fitbit), otherwise nothing
FirstAvailable(syncedData, field) ==
    IF "strava" \in DOMAIN syncedData THEN syncedData.strava[field]
    ELSE IF "fitbit" \in DOMAIN syncedData THEN syncedData.fitbit[field]
    ELSE 0

\* C18: the sync merge is first-available-wins per field: whenever Strava
\* returned a reading the delta's distance and calories are Strava's values
\* (whatever they are, 0 included), Fitbit contributes a field only when
\* Strava supplied none, and the two are never added together.
C18_FirstAvailableWins ==
    [][\A s \in 1..Len(syncs), o \in FitbitOutcomes :
          ( /\ SyncFitbit(s, o)
            /\ lastCall'.success
            /\ CallerIndex(syncs[s].challengeId) # 0 ) =>
              LET i == CallerIndex(syncs[s].challengeId)
                  before == allUserChallenges[session][i].progress
                  after == allUserChallenges'[session][i].progress
                  syncedData == lastCall'.syncedData
              IN  /\ Field(after, "currentDistance")
                        = Field(before, "currentDistance")
                            + FirstAvailable(syncedData, "distance")
                  /\ Field(after, "currentCalories")
                        = Field(before, "currentCalories")
                            + FirstAvailable(syncedData, "calories")]_vars

\* the suspended call s, resumed with Fitbit outcome o, has no distance and no
\* calorie measurement from any source: each source is unavailable or has
\* answered without measurements
NothingMeasured(s, o) ==
    /\ Synced(syncs[s].syncedData, "strava", "distance") = 0
    /\ Synced(syncs[s].syncedData, "strava", "calories") = 0
    /\ o.throws \/ (o.distance = 0 /\ o.caloriesOut = 0)

\* C19: when no source yields any distance or calorie data for a sync (every
\* source is unavailable or responds without measurements) the sync leaves
\* every record's progress unchanged and returns the "nothing to sync"
\* failure, not success.
C19_NothingToSync ==
    [][\A s \in 1..Len(syncs), o \in FitbitOutcomes :
          (SyncFitbit(s, o) /\ NothingMeasured(s, o)) =>
              /\ \A u \in DOMAIN allUserChallenges :
                    \A i \in 1..Len(allUserChallenges[u]) :
                        allUserChallenges'[u][i].progress
                            = allUserChallenges[u][i].progress
              /\ ~lastCall'.success
              /\ lastCall'.message = "No data available to sync"]_vars

\* this step is the successful return of a sync of challenge c by the caller
\* whose previous call was a successful sync of c with the same readings
RepeatedSync(c) ==
    /\ IsSyncReturn(c)
    /\ lastCall'.success
    /\ lastCall.op = "sync"
    /\ lastCall.success
    /\ lastCall.challengeId = c
    /\ lastCall.user = session
    /\ lastCall'.syncedData = lastCall.syncedData
    /\ CallerIndex(c) # 0

\* C20: sync is idempotent: a second sync of the same challenge with the same
\* source readings leaves the record's progress equal to what it was after
\* the first.
C20_SyncIdempotent ==
    [][\A c \in ChallengeIds :
          RepeatedSync(c) =>
              allUserChallenges'[session][CallerIndex(c)].progress
                  = allUserChallenges[session][CallerIndex(c)].progress]_vars

\* the sync of challenge c asks Strava before Fitbit
StravaAsked(c) ==
    /\ getChallengeIndex(challenges, c) # 0
    /\ getChallengeById(challenges, c).category \in {"running", "cycling"}

\* of the two sources asked by the suspended call s, resumed with Fitbit
\* outcome o, exactly one threw and the other returned data
OneSourceFailed(s, o) ==
    /\ StravaAsked(syncs[s].challengeId)
    /\ ("strava" \in DOMAIN syncs[s].syncedData) = o.throws

\* C21: a failing source never aborts a sync: when one of the two sources
\* throws and the other returns data, the call builds the delta from the
\* surviving source alone, applies it to the caller's record and returns
\* success; a rejected Strava fetch leaves the call running on to Fitbit.
C21_FailingSourceSkipped ==
    [][/\ \A s \in 1..Len(syncs), o \in FitbitOutcomes :
            (SyncFitbit(s, o) /\ OneSourceFailed(s, o)) =>
                LET c == syncs[s].challengeId
                    survivor == IF o.throws THEN "strava" ELSE "fitbit"
                IN  /\ lastCall'.op = "sync"
                    /\ lastCall'.success
                    /\ DOMAIN lastCall'.syncedData = {survivor}
                    /\ CallerIndex(c) # 0 =>
                          LET before == allUserChallenges[session][CallerIndex(c)].progress
                              after == allUserChallenges'[session][CallerIndex(c)].progress
                          IN  /\ Field(after, "currentDistance")
                                    = Field(before, "currentDistance")
                                        + lastCall'.syncedData[survivor].distance
                              /\ Field(after, "currentCalories")
                                    = Field(before, "currentCalories")
                                        + lastCall'.syncedData[survivor].calories
       /\ \A s \in 1..Len(syncs) :
            syncs[s].pc = "strava"
                => /\ \E t \in 1..Len(syncs') :
                         \/ syncs'[t] = syncs[s]
                         \/ /\ syncs'[t].pc = "fitbit"
                            /\ syncs'[t].challengeId = syncs[s].challengeId
                   /\ (Len(syncs') = Len(syncs) /\ syncs'[s] # syncs[s])
                         => syncs'[s].pc = "fitbit" /\ lastCall' = lastCall]_vars

\* Strava threw, Fitbit answered with 3 km and 2 kcal, and the caller's record
\* gained exactly those
C21_Witness ==
    /\ lastCall.op = "sync"
    /\ lastCall.success
    /\ StravaAsked(lastCall.challengeId)
    /\ DOMAIN lastCall.syncedData = {"fitbit"}
    /\ lastCall.syncedData.fitbit.distance = 3
    /\ \E i \in RecordsFor(lastCall.user, lastCall.challengeId) :
          /\ allUserChallenges[lastCall.user][i].progress.currentDistance = 3
          /\ allUserChallenges[lastCall.user][i].progress.currentCalories = 2

\* C22: store operations are atomic with respect to each other: under every
\* interleaving of joinChallenge, leaveChallenge, updateChallengeProgress and
\* syncChallengeProgress calls that switches only at await points, each user
\* holds at most one record per challenge and at most 5 active records.
C22_InvariantsUnderInterleaving ==
    \A u \in DOMAIN allUserChallenges :
        /\ \A c \in ChallengeIds : Cardinality(RecordsFor(u, c)) <= 1
        /\ ActiveCount(u) <= MAX_ACTIVE_CHALLENGES

\* a join went through while a sync call was suspended at an await, and took
\* the caller to 5 active records
C22_Witness ==
    /\ Len(syncs) >= 1
    /\ lastCall.op = "join"
    /\ lastCall.success
    /\ ActiveCount(lastCall.user) = MAX_ACTIVE_CHALLENGES
    /\ Cardinality(RecordsFor(lastCall.user, lastCall.challengeId)) = 1

\* the records of user u with status "active", in stored order
ActiveRecordsOf(u) ==
    SelectSeq(IF u \in DOMAIN allUserChallenges THEN allUserChallenges[u] ELSE <<>>,
              LAMBDA uc : uc.status = "active")

\* C23: the list-active read getUserChallenges(userId) returns exactly the
\* given user's records whose status is "active" (and, being a read, changes
\* neither the catalog nor the membership store).
C23_ListsExactlyActive ==
    \A u \in Users :
        getUserChallenges(allUserChallenges, u) = ActiveRecordsOf(u)

\* C25: status and percentage stay consistent: in every reachable state a
\* record with status "active" has a completion percentage below 100 and a
\* record with status "completed" has a completion percentage of exactly 100.
C25_StatusMatchesPercentage ==
    \A u \in DOMAIN allUserChallenges :
        \A i \in 1..Len(allUserChallenges[u]) :
            LET userChallenge == allUserChallenges[u][i]
            IN  /\ userChallenge.status = "active"
                      => calculateChallengeProgress(userChallenge) < 100
                /\ userChallenge.status = "completed"
                      => calculateChallengeProgress(userChallenge) = 100

\* a completed record that was updated again and went past its target, next
\* to a record of the same user that is still active
C25_Witness ==
    \E u \in DOMAIN allUserChallenges :
        /\ \E i \in 1..Len(allUserChallenges[u]) :
              /\ allUserChallenges[u][i].status = "completed"
              /\ allUserChallenges[u][i].progress.completedWorkouts
                     > allUserChallenges[u][i].progress.totalWorkouts
        /\ \E j \in 1..Len(allUserChallenges[u]) :
              allUserChallenges[u][j].status = "active"

\* C26: a syncChallengeProgress call started while user A is logged in never
\* modifies a record of a different user B, also when the session changes
\* while the call is suspended.  Under SpecSwitch every suspended call was
\* started by u1.
C26_SyncTouchesOnlyCaller ==
    [][\A s \in 1..Len(syncs), o \in FitbitOutcomes :
          SyncFitbit(s, o) =>
              \A u \in DOMAIN allUserChallenges :
                  u # "u1" => allUserChallenges'[u] = allUserChallenges[u]]_vars

\* C27: whenever syncChallengeProgress returns success:true the merged delta
\* was applied: the caller is logged in, holds a record for the challenge and
\* the inner updateChallengeProgress succeeded on it.
C27_SyncSuccessMeansApplied ==
    [][\A s \in 1..Len(syncs), o \in FitbitOutcomes :
          (SyncFitbit(s, o) /\ lastCall'.success) =>
              /\ isLoggedIn
              /\ CallerIndex(syncs[s].challengeId) # 0
              /\ updateChallengeProgress(allUserChallenges, getCurrentUser,
                                         syncs[s].challengeId,
                                         progressUpdate(lastCall'.syncedData)).success]_vars

\* number of records, over all users, for challenge c whose status is not
\* "abandoned"
RECURSIVE HeldBy(_, _)
HeldBy(users, c) ==
    IF users = {} THEN 0
    ELSE LET u == CHOOSE x \in users : TRUE
         IN  Cardinality({i \in RecordsFor(u, c) :
                             allUserChallenges[u][i].status # "abandoned"})
             + HeldBy(users \ {u}, c)

\* C28: participant conservation: in every reachable state, for every catalog
\* challenge, participants minus its seeded value equals the number of user
\* records for it whose status is not "abandoned".
C28_ParticipantsConserved ==
    \A k \in 1..Len(challenges) :
        challenges[k].participants - FreshCatalog[k].participants
            = HeldBy(DOMAIN allUserChallenges, challenges[k].id)

\* C29: no operation ever changes progress.currentSessions: in every
\* reachable state a record joined on a challenge with a totalSessions goal
\* has currentSessions 0 (and no other record has a currentSessions at all),
\* so the sessions criterion contributes 0 to the completion percentage.
C29_SessionsNeverCounted ==
    \A u \in DOMAIN allUserChallenges :
        \A i \in 1..Len(allUserChallenges[u]) :
            LET progress == allUserChallenges[u][i].progress
            IN  /\ Field(progress, "currentSessions") = 0
                /\ "currentSessions" \in DOMAIN progress
                      <=> "totalSessions" \in DOMAIN progress

\* a record with a totalSessions goal took a workout update and a minutes
\* update and still has currentSessions 0
C29_Witness ==
    \E u \in DOMAIN allUserChallenges :
        \E i \in 1..Len(allUserChallenges[u]) :
            LET progress == allUserChallenges[u][i].progress
            IN  /\ Field(progress, "totalSessions") # 0
                /\ progress.completedWorkouts >= 1
                /\ Field(progress, "currentMinutes") >= 1
                /\ progress.currentSessions = 0

\* C30: no lost update between overlapping syncs: every returning sync call
\* adds its merged delta to the progress that is stored at that moment, which
\* includes what a call that overlapped it has written, and leaves every
\* other record alone; after both calls the progress reflects both deltas.
C30_NoLostUpdate ==
    [][\A s \in 1..Len(syncs), o \in FitbitOutcomes :
          ( /\ SyncFitbit(s, o)
            /\ lastCall'.success
            /\ CallerIndex(syncs[s].challengeId) # 0 ) =>
              LET i == CallerIndex(syncs[s].challengeId)
                  before == allUserChallenges[session][i].progress
                  after == allUserChallenges'[session][i].progress
                  delta == progressUpdate(lastCall'.syncedData)
              IN  /\ Field(after, "currentDistance")
                        = Field(before, "currentDistance") + delta.distance
                  /\ Field(after, "currentCalories")
                        = Field(before, "currentCalories") + delta.calories
                  /\ \A u \in DOMAIN allUserChallenges :
                        \A j \in 1..Len(allUserChallenges[u]) :
                            (u # session \/ j # i)
                                => allUserChallenges'[u][j] = allUserChallenges[u][j]]_vars

\* both overlapping calls have returned and no other call was made: one
\* brought 50 km and 1 kcal from Strava, the other 3 km and 2 kcal from
\* Fitbit, and the record holds the sum
C30_Witness ==
    /\ syncs = <<>>
    /\ budget = MaxCallsSwitch
    /\ lastCall.op = "sync"
    /\ lastCall.success
    /\ allUserChallenges["u1"][1].progress.currentDistance = 53
    /\ Field(allUserChallenges["u1"][1].progress, "currentCalories") = 3

\* C24: getCurrentUser terminates when the stored session has expired: it
\* removes the session and returns null in a bounded number of steps, without
\* getCurrentUser and logoutUser re-entering each other indefinitely.  Both
\* functions are deterministic in the session storage, so an activation that
\* is entered while an earlier activation of the same function that found
\* the same session storage is still waiting starts a recursion without end;
\* the claim excludes it.
C24_NoEndlessReentry ==
    \A i, j \in 1..Len(callStack) :
        i < j => ~ ( /\ callStack[i].fn = callStack[j].fn
                     /\ callStack[i].found = callStack[j].found )

====
